---- MODULE Spec2Model ----
(***************************************************************************)
(* A model of ramalama's pull path (ramalama.py): the reference parsing of *)
(* pull_cli, the Ollama manifest / config / layer fetches with their       *)
(* checksum-gated, resumable curl commands, the Hugging Face and OCI       *)
(* adapters, and the symlinks each of them publishes under models/.        *)
(*                                                                         *)
(* A Python string is a sequence of tokens.  Every character the code      *)
(* looks at ("/", ":", ".") is a token of its own; a run of other          *)
(* characters ("llama3", "sha256") is one token that holds none of them.   *)
(* A file's content is a sequence of bits.                                 *)
(***************************************************************************)
EXTENDS Integers, Sequences, FiniteSets, TLC

(* ------------------------------------------------------------------ *)
(* Bounds                                                             *)
(* ------------------------------------------------------------------ *)

\* Number of bytes of a model-layer blob on the registry.
BlobLen == 2

\* Longest reference string the parsing specification enumerates.
MaxRefLen == 5

\* Most segments of an organization path the identifier specification
\* enumerates.
MaxSegs == 4

(* ------------------------------------------------------------------ *)
(* Python string operations, on token sequences                       *)
(* ------------------------------------------------------------------ *)

\* str.find(c): the first index holding token c, 0 when there is none.
Find(s, c) ==
  IF \E i \in 1..Len(s) : s[i] = c
  THEN CHOOSE i \in 1..Len(s) : s[i] = c /\ \A j \in 1..(i - 1) : s[j] # c
  ELSE 0

\* str.rfind(c): the last index holding token c, 0 when there is none.
RFind(s, c) ==
  IF \E i \in 1..Len(s) : s[i] = c
  THEN CHOOSE i \in 1..Len(s) : s[i] = c /\ \A j \in (i + 1)..Len(s) : s[j] # c
  ELSE 0

\* c in s
Contains(s, c) == Find(s, c) # 0

\* s.startswith(pre)
StartsWith(s, pre) == Len(s) >= Len(pre) /\ SubSeq(s, 1, Len(pre)) = pre

\* s.endswith(suf)
EndsWith(s, suf) ==
  Len(s) >= Len(suf) /\ SubSeq(s, Len(s) - Len(suf) + 1, Len(s)) = suf

\* re.sub(r'^pre', '', s)
StripPrefix(s, pre) ==
  IF StartsWith(s, pre) THEN SubSeq(s, Len(pre) + 1, Len(s)) ELSE s

\* s.split(c, 1): one or two parts, cut at the first c.
Split1(s, c) ==
  LET i == Find(s, c) IN
  IF i = 0 THEN <<s>> ELSE <<SubSeq(s, 1, i - 1), SubSeq(s, i + 1, Len(s))>>

\* s.rsplit(c, 1): one or two parts, cut at the last c.
RSplit1(s, c) ==
  LET i == RFind(s, c) IN
  IF i = 0 THEN <<s>> ELSE <<SubSeq(s, 1, i - 1), SubSeq(s, i + 1, Len(s))>>

\* s.replace(a, b) for single tokens a, b.
Replace(s, a, b) == [i \in 1..Len(s) |-> IF s[i] = a THEN b ELSE s[i]]

\* s.split(c): every part, empty ones included.
RECURSIVE SplitAll(_, _)
SplitAll(s, c) ==
  LET i == Find(s, c) IN
  IF i = 0 THEN <<s>>
  ELSE <<SubSeq(s, 1, i - 1)>> \o SplitAll(SubSeq(s, i + 1, Len(s)), c)

\* c.join(parts)
RECURSIVE JoinAll(_, _)
JoinAll(parts, c) ==
  IF Len(parts) = 0 THEN <<>>
  ELSE IF Len(parts) = 1 THEN parts[1]
  ELSE parts[1] \o <<c>> \o JoinAll(Tail(parts), c)

(* ------------------------------------------------------------------ *)
(* os.path, on token sequences                                        *)
(* ------------------------------------------------------------------ *)

\* The components of a path after os.path.normpath: empty and "."
\* components dropped, ".." cancelling the component before it.
RECURSIVE NormParts(_, _)
NormParts(parts, acc) ==
  IF Len(parts) = 0 THEN acc
  ELSE LET h == Head(parts) IN
       IF h = <<>> \/ h = <<".">> THEN NormParts(Tail(parts), acc)
       ELSE IF h = <<"..">>
            THEN NormParts(Tail(parts),
                           IF Len(acc) = 0 THEN acc
                           ELSE SubSeq(acc, 1, Len(acc) - 1))
            ELSE NormParts(Tail(parts), Append(acc, h))

\* The components of an absolute path.
Parts(path) == NormParts(SplitAll(path, "/"), <<>>)

\* os.path.abspath of an absolute path: its normal form.
AbsPath(path) == <<"/">> \o JoinAll(Parts(path), "/")

\* os.path.join(a, b)
PathJoin(a, b) ==
  IF StartsWith(b, <<"/">>) THEN b
  ELSE IF Len(a) = 0 \/ a[Len(a)] = "/" THEN a \o b
  ELSE a \o <<"/">> \o b

\* os.path.dirname(p): what precedes the last "/", without that "/"
\* unless it is the root.
DirName(p) ==
  LET i == RFind(p, "/") IN
  IF i = 0 THEN <<>>
  ELSE IF i = 1 THEN <<"/">>
  ELSE SubSeq(p, 1, i - 1)

\* os.path.basename(p): what follows the last "/".
BaseName(p) == SubSeq(p, RFind(p, "/") + 1, Len(p))

\* The length of the longest common prefix of two component lists.
RECURSIVE CommonLen(_, _)
CommonLen(a, b) ==
  IF Len(a) = 0 \/ Len(b) = 0 \/ Head(a) # Head(b) THEN 0
  ELSE 1 + CommonLen(Tail(a), Tail(b))

\* os.path.relpath(path, start=start), both absolute.
RelPath(path, start) ==
  LET p == Parts(path)
      s == Parts(start)
      n == CommonLen(p, s)
      ups == [i \in 1..(Len(s) - n) |-> <<"..">>]
      rel == ups \o SubSeq(p, n + 1, Len(p))
  IN IF Len(rel) = 0 THEN <<".">> ELSE JoinAll(rel, "/")

\* The path a symlink at `link` with target `target` names: the target
\* itself when absolute, else the target taken from the link's directory.
LinkDest(link, target) == AbsPath(PathJoin(DirName(link), target))

(* ------------------------------------------------------------------ *)
(* Checksums                                                          *)
(* ------------------------------------------------------------------ *)

\* The number a bit sequence spells after a leading 1: distinct contents
\* give distinct numbers, as distinct files give distinct SHA-256 sums.
RECURSIVE HashValue(_)
HashValue(content) ==
  IF Len(content) = 0 THEN 1
  ELSE 2 * HashValue(SubSeq(content, 1, Len(content) - 1))
       + content[Len(content)]

\* hashlib.sha256(content).hexdigest(), one token.
Sha256Hex(content) == ToString(HashValue(content))

\* The digest string "sha256:<hex>" a registry gives a blob.
DigestOf(content) == <<"sha256", ":", Sha256Hex(content)>>

(* ------------------------------------------------------------------ *)
(* The store layout and the registry                                  *)
(* ------------------------------------------------------------------ *)

\* get_ramalama_store() for root.
RamalamaStore == <<"/", "var", "/", "lib", "/", "ramalama">>

\* The directories mkdirs() creates under the store.
StoreDirectories ==
  { <<"models", "/", "huggingface">>, <<"repos", "/", "huggingface">>,
    <<"models", "/", "oci">>, <<"repos", "/", "oci">>,
    <<"models", "/", "ollama">>, <<"repos", "/", "ollama">> }

\* The entries of models/ that the "*" of pull_cli's glob can match.
Backends == { <<"huggingface">>, <<"oci">>, <<"ollama">> }

OllamaScheme == <<"ollama", ":", "/", "/">>
HuggingfaceScheme == <<"huggingface", ":", "/", "/">>
OciScheme == <<"oci", ":", "/", "/">>

\* registry = "https://registry.ollama.ai"
OllamaRegistry ==
  <<"https", ":", "/", "/", "registry", ".", "ollama", ".", "ai">>

\* The mediaType init_pull materializes.
ModelMediaType == "application/vnd.ollama.image.model"
LicenseMediaType == "application/vnd.ollama.image.license"

\* curl's exit status for an HTTP error under -f: the "not found" status.
NotFoundStatus == 22
\* The statuses a fetch command fails with: not found, and a transport
\* failure (curl's 7, "could not connect").
Statuses == {NotFoundStatus, 7}

\* The blobs the registry serves.
ConfigContent == <<1, 0>>
ModelContent == [i \in 1..BlobLen |-> 1]
OtherModelContent == [i \in 1..BlobLen |-> 0]
LicenseContent == <<0, 1>>
RegistryContents ==
  {ConfigContent, ModelContent, OtherModelContent, LicenseContent}

\* GET {registry}/v2/{name}/blobs/{digest}: the content with that digest.
RegistryBlob(digest) ==
  CHOOSE c \in RegistryContents : DigestOf(c) = digest

NoManifest == [config |-> [digest |-> <<>>], layers |-> <<>>]

Layer(content, mediaType) ==
  [digest |-> DigestOf(content), mediaType |-> mediaType]

ManifestOf(layers) ==
  [config |-> [digest |-> DigestOf(ConfigContent)], layers |-> layers]

\* GET {registry}/v2/{name}/manifests/{tag}: the manifest JSON, or
\* NoManifest for a 404.
RegistryManifest(name, tag) ==
  CASE name = <<"library", "/", "llama3">> /\ tag = <<"latest">> ->
         ManifestOf(<<Layer(LicenseContent, LicenseMediaType),
                      Layer(ModelContent, ModelMediaType)>>)
    [] name = <<"library", "/", "llama3">> /\ tag = <<"8b">> ->
         ManifestOf(<<Layer(ModelContent, ModelMediaType)>>)
    [] name = <<"myorg", "/", "llama3">> /\ tag = <<"8b">> ->
         ManifestOf(<<Layer(OtherModelContent, ModelMediaType)>>)
    [] name = <<"library", "/", "duo">> /\ tag = <<"latest">> ->
         ManifestOf(<<Layer(ModelContent, ModelMediaType),
                      Layer(OtherModelContent, ModelMediaType)>>)
    [] name = <<"library", "/", "bare">> /\ tag = <<"latest">> ->
         ManifestOf(<<Layer(LicenseContent, LicenseMediaType)>>)
    [] name = <<"library", "/", "tail">> /\ tag = <<"latest">> ->
         ManifestOf(<<Layer(ModelContent, ModelMediaType),
                      Layer(LicenseContent, LicenseMediaType)>>)
    [] OTHER -> NoManifest

(* ------------------------------------------------------------------ *)
(* State                                                              *)
(* ------------------------------------------------------------------ *)

AllProcs == {1, 2}

VARIABLES
  procs,     \* the ramalama processes that may run (a subset of AllProcs)
  refs,      \* the reference strings given on the command line
  dirs,      \* the directories that exist
  blobs,     \* regular files under repos/ollama/blobs: path -> content
  manifests, \* manifest files under repos/ollama/manifests: path -> JSON
  hub,       \* other regular files (what the Hugging Face, OCI and URL
             \* adapters wrote, files of the host): a set of paths
  symlinks,  \* symlinks under models/: path -> target string
  pc,        \* each process's position
  loc,       \* each process's local variables
  ret,       \* what each process returned, printed and exited with
  obs,       \* per invocation: the store at its start and what it did
  seen,      \* what the last reader of a published path found
  pulled     \* reference -> the path its last successful pull returned

vars == <<procs, refs, dirs, blobs, manifests, hub, symlinks,
          pc, loc, ret, obs, seen, pulled>>

fsvars == <<dirs, blobs, manifests, hub, symlinks>>

\* (name, tag, organization) before any is derived.
NoIds == [name |-> <<>>, tag |-> <<>>, organization |-> <<>>]

Loc0 ==
  [arg |-> <<>>, model |-> <<>>, model_name |-> <<>>, model_tag |-> <<>>,
   symlink_path |-> <<>>, manifests |-> <<>>, manifest_data |-> NoManifest,
   idx |-> 0, file |-> <<>>, digest |-> <<>>, mode |-> "w", off |-> 0,
   after |-> "none", directory |-> <<>>, filename |-> <<>>,
   gguf_path |-> <<>>, outdir |-> <<>>, type |-> "",
   base |-> NoIds, ids |-> NoIds]

Ret0 == [kind |-> "none", path |-> <<>>, status |-> 0, msg |-> <<>>]

Obs0 ==
  [wrote |-> FALSE, ran |-> {}, failed |-> 0,
   blobs |-> <<>>, symlinks |-> <<>>, hub |-> {}, calls |-> <<>>]

\* f with x mapped to v, x added to its domain when new.
Put(f, x, v) == [y \in (DOMAIN f) \cup {x} |-> IF y = x THEN v ELSE f[y]]

\* Every directory os.makedirs(path, exist_ok=True) leaves existing.
Ancestors(path) ==
  LET parts == Parts(path) IN
  { <<"/">> \o JoinAll(SubSeq(parts, 1, n), "/") : n \in 1..Len(parts) }

MakeDirs(ds, path) == ds \cup Ancestors(path)

\* os.path.lexists(path), with ds the directories that exist.
LExists(ds, path) ==
  \/ path \in DOMAIN symlinks
  \/ path \in DOMAIN blobs
  \/ path \in DOMAIN manifests
  \/ path \in hub
  \/ path \in ds

\* os.path.exists(path): a symlink counts when what it names exists.
Exists(path) ==
  IF path \in DOMAIN symlinks
  THEN LExists(dirs, LinkDest(path, symlinks[path]))
  ELSE LExists(dirs, path)

\* The file a symlink of the store names (Path.resolve()).
Published(link) == LinkDest(link, symlinks[link])

\* mkdirs(ramalama_store): the directories that exist after it.
mkdirs(ds) ==
  ds \cup UNION { Ancestors(PathJoin(RamalamaStore, d)) : d \in StoreDirectories }

\* glob.glob(f"{ramalama_store}/models/*/{model}"): the path strings
\* that exist, one for each entry of models/.
Glob(ds, model) ==
  { g \in { RamalamaStore \o <<"/", "models", "/">> \o b \o <<"/">> \o model :
            b \in Backends } : LExists(ds, AbsPath(g)) }

(* ------------------------------------------------------------------ *)
(* verify_checksum and the names pull_cli derives                     *)
(* ------------------------------------------------------------------ *)

\* verify_checksum without the hashing: True for every file that exists.
verify_checksum_exists(filename) == AbsPath(filename) \in DOMAIN blobs

\* verify_checksum comparing the hash with the whole file name, not with
\* what follows "sha256:": no file verifies.
verify_checksum_whole_name(filename) ==
  /\ AbsPath(filename) \in DOMAIN blobs
  /\ <<Sha256Hex(blobs[AbsPath(filename)])>> = BaseName(filename)

\* verify_checksum(filename): the file exists and its SHA-256 is the
\* checksum its name carries after "sha256:".  (Every digest a manifest
\* of the registry names is well formed, so neither ValueError is raised.)
verify_checksum(filename) ==
  /\ AbsPath(filename) \in DOMAIN blobs
  /\ LET fn_base == BaseName(filename)
         expected_checksum == SplitAll(fn_base, ":")[2]
     IN <<Sha256Hex(blobs[AbsPath(filename)])>> = expected_checksum

\* pull_cli, from the re.sub of the scheme to registry_head: every name
\* the Ollama pull uses, for the reference string arg.
pull_cli_names(arg) ==
  LET model == StripPrefix(arg, OllamaScheme)
      repos_ollama == RamalamaStore \o <<"/", "repos", "/", "ollama">>
      ramalama_models == RamalamaStore \o <<"/", "models", "/", "ollama">>
      model_full == IF Contains(model, "/") THEN model
                    ELSE <<"library", "/">> \o model
      model_name == IF Contains(model_full, ":")
                    THEN Split1(model_full, ":")[1] ELSE model_full
      model_tag == IF Contains(model_full, ":")
                   THEN Split1(model_full, ":")[2] ELSE <<"latest">>
      model_base == BaseName(model_name)
  IN [model |-> model,
      repos_ollama |-> repos_ollama,
      ramalama_models |-> ramalama_models,
      model_name |-> model_name,
      model_tag |-> model_tag,
      model_base |-> model_base,
      symlink_path |-> PathJoin(ramalama_models, model_base \o <<":">> \o model_tag),
      manifests |-> PathJoin(PathJoin(PathJoin(PathJoin(repos_ollama,
                      <<"manifests">>), OllamaRegistry), model_name), model_tag),
      registry_head |-> OllamaRegistry \o <<"/", "v2", "/">> \o model_name]

\* The blob file of a digest: os.path.join(repos_ollama, "blobs", digest).
BlobPath(digest) ==
  PathJoin(PathJoin(RamalamaStore \o <<"/", "repos", "/", "ollama">>,
                    <<"blobs">>), digest)

(* ------------------------------------------------------------------ *)
(* How an invocation ends                                             *)
(* ------------------------------------------------------------------ *)

\* return path
Return(p, path) ==
  /\ pc' = [pc EXCEPT ![p] = "done"]
  /\ ret' = [ret EXCEPT ![p] = [Ret0 EXCEPT !.kind = "path", !.path = path]]

\* print_error(msg) when there is a message, then sys.exit(status).
Exit(p, status, msg) ==
  /\ pc' = [pc EXCEPT ![p] = "done"]
  /\ ret' = [ret EXCEPT ![p] =
               [Ret0 EXCEPT !.kind = "exit", !.status = status, !.msg = msg]]

\* An exception nothing catches: main() handles IndexError and KeyError
\* only, so the interpreter prints the traceback and exits with status 1.
Uncaught(p, exception) ==
  /\ pc' = [pc EXCEPT ![p] = "done"]
  /\ ret' = [ret EXCEPT ![p] =
               [Ret0 EXCEPT !.kind = "raise", !.status = 1, !.msg = exception]]

\* The record of a command run: curl with its -o file and the offset it
\* resumes from, ln with the link and its target.
Ran(cmd, file, from, target) ==
  [cmd |-> cmd, file |-> file, from |-> from, target |-> target]

(* ------------------------------------------------------------------ *)
(* pull_cli                                                           *)
(* ------------------------------------------------------------------ *)

\* main() up to the dispatch, then pull_cli(ramalama_store, [arg], port)
\* down to the call of pull_huggingface, pull_oci or init_pull.
pull_cli(p, arg) ==
  /\ p \in procs
  /\ pc[p] = "idle"
  /\ arg \in refs
  /\ LET ds == mkdirs(dirs)
         n == pull_cli_names(arg)
         matching_files == Glob(ds, arg)
     IN /\ dirs' = ds
        /\ obs' = [obs EXCEPT ![p] =
                     [Obs0 EXCEPT !.wrote = (ds # dirs),
                                  !.blobs = blobs, !.symlinks = symlinks]]
        /\ IF matching_files # {}
           THEN /\ \E m \in matching_files : Return(p, m)
                /\ loc' = [loc EXCEPT ![p] = [Loc0 EXCEPT !.arg = arg, !.model = arg]]
           ELSE IF StartsWith(arg, HuggingfaceScheme)
           THEN /\ pc' = [pc EXCEPT ![p] = "huggingface"]
                /\ loc' = [loc EXCEPT ![p] = [Loc0 EXCEPT !.arg = arg, !.model = arg]]
                /\ ret' = ret
           ELSE IF StartsWith(arg, OciScheme)
           THEN /\ pc' = [pc EXCEPT ![p] = "oci"]
                /\ loc' = [loc EXCEPT ![p] = [Loc0 EXCEPT !.arg = arg, !.model = arg]]
                /\ ret' = ret
           ELSE /\ loc' = [loc EXCEPT ![p] =
                             [Loc0 EXCEPT !.arg = arg,
                                          !.model = n.model,
                                          !.model_name = n.model_name,
                                          !.model_tag = n.model_tag,
                                          !.symlink_path = n.symlink_path,
                                          !.manifests = n.manifests]]
                /\ IF Exists(AbsPath(n.symlink_path))
                   THEN Return(p, n.symlink_path)
                   ELSE /\ pc' = [pc EXCEPT ![p] = "manifest"]
                        /\ ret' = ret
  /\ UNCHANGED <<procs, refs, blobs, manifests, hub, symlinks, seen, pulled>>

(* ------------------------------------------------------------------ *)
(* init_pull and what it calls                                        *)
(* ------------------------------------------------------------------ *)

\* init_pull's try block: pull_ollama_manifest (two makedirs, then curl
\* -f -s -o manifests) and json.load, with the except clause around them.
pull_ollama_manifest(p) ==
  /\ pc[p] = "manifest"
  /\ LET ds == MakeDirs(MakeDirs(dirs, DirName(loc[p].manifests)),
                        DirName(BlobPath(<<"x">>)))
         data == RegistryManifest(loc[p].model_name, loc[p].model_tag)
         cmd == Ran("curl", loc[p].manifests, 0, <<>>)
     IN /\ dirs' = ds
        /\ \/ /\ data # NoManifest
              /\ manifests' = Put(manifests, AbsPath(loc[p].manifests), data)
              /\ loc' = [loc EXCEPT ![p].manifest_data = data, ![p].idx = 1]
              /\ pc' = [pc EXCEPT ![p] = "config"]
              /\ obs' = [obs EXCEPT ![p].wrote = TRUE,
                                    ![p].ran = @ \cup {cmd}]
              /\ ret' = ret
           \/ /\ \E returncode \in Statuses :
                   /\ Exit(p, returncode,
                           IF returncode = NotFoundStatus
                           THEN loc[p].model \o <<":">> \o loc[p].model_tag
                                \o <<" not found">>
                           ELSE <<>>)
                   /\ obs' = [obs EXCEPT ![p].wrote = (@ \/ ds # dirs),
                                         ![p].ran = @ \cup {cmd},
                                         ![p].failed = returncode]
              /\ UNCHANGED <<manifests, loc>>
  /\ UNCHANGED <<procs, refs, blobs, hub, symlinks, seen, pulled>>

\* curl without -C -: every transfer starts at offset 0.
curl_no_resume(file) == 0

\* curl -C - : the offset the transfer resumes from, the size of the
\* output file (0 when there is none).
curl_resume_from(file) ==
  IF AbsPath(file) \in DOMAIN blobs THEN Len(blobs[AbsPath(file)]) ELSE 0

\* run_curl_cmd(args, filename): nothing when the file verifies, else
\* the curl command starts; `after` is where the caller goes on.
run_curl_cmd(p, filename, digest, after) ==
  IF verify_checksum(filename)
  THEN /\ pc' = [pc EXCEPT ![p] = after]
       /\ loc' = [loc EXCEPT ![p].file = filename, ![p].digest = digest]
       /\ obs' = obs
  ELSE /\ pc' = [pc EXCEPT ![p] = "curl"]
       /\ loc' = [loc EXCEPT ![p].file = filename,
                             ![p].digest = digest,
                             ![p].off = curl_resume_from(filename),
                             ![p].mode = IF curl_resume_from(filename) = 0
                                         THEN "w" ELSE "a",
                             ![p].after = after]
       /\ obs' = [obs EXCEPT ![p].ran =
                    @ \cup {Ran("curl", filename, curl_resume_from(filename), <<>>)}]

\* pull_ollama_config_blob(repos_ollama, accept, registry_head,
\* manifest_data), up to the start of its curl command.
pull_ollama_config_blob(p) ==
  /\ pc[p] = "config"
  /\ LET cfg_hash == loc[p].manifest_data.config.digest
     IN run_curl_cmd(p, BlobPath(cfg_hash), cfg_hash, "layers")
  /\ UNCHANGED <<procs, refs, fsvars, ret, seen, pulled>>

\* init_pull's loop without its test of the mediaType: pull_ollama_blob
\* is entered for every layer.
init_pull_layer_every(p) ==
  /\ pc[p] = "layers"
  /\ LET layers == loc[p].manifest_data.layers
         layer == layers[loc[p].idx]
     IN IF loc[p].idx > Len(layers)
        THEN /\ Return(p, loc[p].symlink_path)
             /\ UNCHANGED <<loc, obs>>
        ELSE /\ run_curl_cmd(p, BlobPath(layer.digest), layer.digest, "ln")
             /\ ret' = ret
  /\ UNCHANGED <<procs, refs, fsvars, seen, pulled>>

\* One pass of init_pull's loop header: return symlink_path after the
\* last layer, skip a layer of another mediaType, or enter
\* pull_ollama_blob for a model layer, up to the start of its curl command.
init_pull_layer(p) ==
  /\ pc[p] = "layers"
  /\ LET layers == loc[p].manifest_data.layers
         layer == layers[loc[p].idx]
     IN IF loc[p].idx > Len(layers)
        THEN /\ Return(p, loc[p].symlink_path)
             /\ UNCHANGED <<loc, obs>>
        ELSE IF layer.mediaType # ModelMediaType
        THEN /\ loc' = [loc EXCEPT ![p].idx = @ + 1]
             /\ UNCHANGED <<pc, ret, obs>>
        ELSE /\ run_curl_cmd(p, BlobPath(layer.digest), layer.digest, "ln")
             /\ ret' = ret
  /\ UNCHANGED <<procs, refs, fsvars, seen, pulled>>

\* What a write of byte b leaves in a file opened "wb" by a transfer that
\* has written `off` bytes: its first write creates or truncates the
\* file, a later one lands at the descriptor's own offset.
WriteAt(file, off, b) ==
  IF off = 0 \/ AbsPath(file) \notin DOMAIN blobs THEN <<b>>
  ELSE LET old == blobs[AbsPath(file)] IN
       [i \in 1..(IF Len(old) > off THEN Len(old) ELSE off + 1) |->
          IF i = off + 1 THEN b
          ELSE IF i <= Len(old) THEN old[i] ELSE 0]

\* What a write of byte b leaves in a file opened "ab" (a resumed
\* transfer): the byte lands at the end of the file.
AppendTo(file, b) ==
  IF AbsPath(file) \in DOMAIN blobs
  THEN Append(blobs[AbsPath(file)], b)
  ELSE <<b>>

\* curl receives the next byte of the blob and writes it to its -o file.
curl_write(p) ==
  /\ pc[p] = "curl"
  /\ loc[p].off < Len(RegistryBlob(loc[p].digest))
  /\ LET b == RegistryBlob(loc[p].digest)[loc[p].off + 1]
     IN blobs' = Put(blobs, AbsPath(loc[p].file),
                     IF loc[p].mode = "w"
                     THEN WriteAt(loc[p].file, loc[p].off, b)
                     ELSE AppendTo(loc[p].file, b))
  /\ loc' = [loc EXCEPT ![p].off = @ + 1]
  /\ obs' = [obs EXCEPT ![p].wrote = TRUE]
  /\ UNCHANGED <<procs, refs, dirs, manifests, hub, symlinks, pc, ret, seen, pulled>>

\* curl has no byte left to fetch and exits 0: run_curl_cmd returns.
curl_done(p) ==
  /\ pc[p] = "curl"
  /\ loc[p].off >= Len(RegistryBlob(loc[p].digest))
  /\ pc' = [pc EXCEPT ![p] = loc[p].after]
  /\ UNCHANGED <<procs, refs, fsvars, loc, ret, obs, seen, pulled>>

\* run_curl_cmd's except clause without its sys.exit: the failure is
\* noted and the caller goes on.
curl_fail_goes_on(p) ==
  /\ pc[p] = "curl"
  /\ \E returncode \in Statuses :
       obs' = [obs EXCEPT ![p].failed = returncode]
  /\ pc' = [pc EXCEPT ![p] = loc[p].after]
  /\ UNCHANGED <<procs, refs, fsvars, loc, ret, seen, pulled>>

\* curl exits with a non-zero status: run_curl_cmd's except clause.
curl_fail(p) ==
  /\ pc[p] = "curl"
  /\ \E returncode \in Statuses :
       /\ Exit(p, returncode,
               IF returncode = NotFoundStatus
               THEN loc[p].file \o <<" not found">> ELSE <<>>)
       /\ obs' = [obs EXCEPT ![p].failed = returncode]
  /\ UNCHANGED <<procs, refs, fsvars, loc, seen, pulled>>

\* pull_ollama_blob with ln -s in place of ln -sf, and its failure on a
\* symlink that is there passed over: the first symlink written stays.
pull_ollama_blob_ln_first(p) ==
  /\ pc[p] = "ln"
  /\ LET ramalama_models == DirName(loc[p].symlink_path)
         relative_target_path ==
           RelPath(loc[p].file, DirName(loc[p].symlink_path))
     IN /\ dirs' = MakeDirs(dirs, ramalama_models)
        /\ symlinks' = IF AbsPath(loc[p].symlink_path) \in DOMAIN symlinks
                       THEN symlinks
                       ELSE Put(symlinks, AbsPath(loc[p].symlink_path),
                                relative_target_path)
  /\ loc' = [loc EXCEPT ![p].idx = @ + 1]
  /\ pc' = [pc EXCEPT ![p] = "layers"]
  /\ obs' = [obs EXCEPT ![p].wrote = TRUE,
                        ![p].ran = @ \cup {Ran("ln", loc[p].symlink_path, 0,
                                             RelPath(loc[p].file,
                                               DirName(loc[p].symlink_path)))}]
  /\ UNCHANGED <<procs, refs, blobs, manifests, hub, ret, seen, pulled>>

\* pull_ollama_blob after run_curl_cmd: makedirs, relpath and ln -sf,
\* then init_pull's loop goes on with the next layer.  The ln command is
\* taken to exit 0.
pull_ollama_blob_ln(p) ==
  /\ pc[p] = "ln"
  /\ LET ramalama_models == DirName(loc[p].symlink_path)
         relative_target_path ==
           RelPath(loc[p].file, DirName(loc[p].symlink_path))
     IN /\ dirs' = MakeDirs(dirs, ramalama_models)
        /\ symlinks' = Put(symlinks, AbsPath(loc[p].symlink_path),
                           relative_target_path)
  /\ loc' = [loc EXCEPT ![p].idx = @ + 1]
  /\ pc' = [pc EXCEPT ![p] = "layers"]
  /\ obs' = [obs EXCEPT ![p].wrote = TRUE,
                        ![p].ran = @ \cup {Ran("ln", loc[p].symlink_path, 0,
                                             RelPath(loc[p].file,
                                               DirName(loc[p].symlink_path)))}]
  /\ UNCHANGED <<procs, refs, blobs, manifests, hub, ret, seen, pulled>>

\* ln -sf on a symlink that is there, in an ln that replaces by unlink
\* and symlink (BSD ln, BusyBox ln, GNU ln before 8.29) and not by a
\* rename: the unlink.  pull_ollama_blob_ln is the symlink that follows,
\* and by itself the ln that replaces in one step.
ln_sf_unlink(p) ==
  /\ pc[p] = "ln"
  /\ AbsPath(loc[p].symlink_path) \in DOMAIN symlinks
  /\ symlinks' = [l \in DOMAIN symlinks \ {AbsPath(loc[p].symlink_path)}
                    |-> symlinks[l]]
  /\ obs' = [obs EXCEPT ![p].wrote = TRUE]
  /\ UNCHANGED <<procs, refs, dirs, blobs, manifests, hub,
                 pc, loc, ret, seen, pulled>>

(* ------------------------------------------------------------------ *)
(* pull_huggingface                                                   *)
(* ------------------------------------------------------------------ *)

\* sys.exit(n): the status the parent sees.
ExitStatus(n) == n % 256

\* pull_huggingface up to the return of try_huggingface_download: the
\* re.sub, the rsplit, and the huggingface-cli download command, whose
\* CalledProcessError nothing catches.  The command prints the path of
\* the file under its --local-dir; when the file is there already it may
\* or may not write again.
try_huggingface_download(p) ==
  /\ pc[p] = "huggingface"
  /\ LET model == StripPrefix(loc[p].arg, HuggingfaceScheme)
         split == RSplit1(model, "/")
         local_dir == RamalamaStore \o <<"/", "repos", "/", "huggingface", "/">>
                      \o split[1]
         gguf_path == local_dir \o <<"/">> \o split[2]
         cmd == Ran("huggingface-cli", gguf_path, 0, <<>>)
     IN IF Len(split) < 2
        THEN /\ Uncaught(p, <<"ValueError">>)
             /\ UNCHANGED <<dirs, hub, loc, obs>>
        ELSE \/ /\ hub' = hub \cup {AbsPath(gguf_path)}
                /\ dirs' = MakeDirs(dirs, local_dir)
                /\ \E rewrote \in BOOLEAN :
                     obs' = [obs EXCEPT
                               ![p].ran = @ \cup {cmd},
                               ![p].wrote = @ \/ rewrote
                                              \/ AbsPath(gguf_path) \notin hub]
                /\ loc' = [loc EXCEPT ![p].model = model,
                                      ![p].directory = split[1],
                                      ![p].filename = split[2],
                                      ![p].gguf_path = gguf_path]
                /\ pc' = [pc EXCEPT ![p] = "huggingface_ln"]
                /\ ret' = ret
             \/ /\ \E returncode \in Statuses :
                     obs' = [obs EXCEPT ![p].ran = @ \cup {cmd},
                                        ![p].failed = returncode]
                /\ Uncaught(p, <<"CalledProcessError">>)
                /\ UNCHANGED <<dirs, hub, loc>>
  /\ UNCHANGED <<procs, refs, blobs, manifests, symlinks, seen, pulled>>

\* The publish step shared by pull_huggingface and pull_oci: nothing when
\* the symlink exists and reads as the target computed, else ln -sf.
\* The ln command is taken to exit 0.
publish(p, symlink_path, relative_target_path) ==
  IF /\ Exists(AbsPath(symlink_path))
     /\ AbsPath(symlink_path) \in DOMAIN symlinks
     /\ symlinks[AbsPath(symlink_path)] = relative_target_path
  THEN /\ UNCHANGED symlinks
       /\ obs' = [obs EXCEPT ![p].wrote = (@ \/ dirs' # dirs)]
  ELSE /\ symlinks' = Put(symlinks, AbsPath(symlink_path),
                          relative_target_path)
       /\ obs' = [obs EXCEPT
                    ![p].wrote = TRUE,
                    ![p].ran = @ \cup {Ran("ln", symlink_path, 0,
                                           relative_target_path)}]

\* pull_huggingface after the download: makedirs, relpath, the check of
\* the symlink that is there, and ln -sf.
pull_huggingface_ln(p) ==
  /\ pc[p] = "huggingface_ln"
  /\ LET directory == RamalamaStore
                      \o <<"/", "models", "/", "huggingface", "/">>
                      \o loc[p].directory
         symlink_path == directory \o <<"/">> \o loc[p].filename
         relative_target_path ==
           RelPath(loc[p].gguf_path, DirName(symlink_path))
     IN /\ dirs' = MakeDirs(dirs, directory)
        /\ publish(p, symlink_path, relative_target_path)
        /\ Return(p, symlink_path)
        /\ loc' = [loc EXCEPT ![p].symlink_path = symlink_path]
  /\ UNCHANGED <<procs, refs, blobs, manifests, hub, seen, pulled>>

(* ------------------------------------------------------------------ *)
(* pull_oci                                                           *)
(* ------------------------------------------------------------------ *)

\* The files of the artifact a registry holds for an OCI target.
OciArtifact(target) ==
  CASE target = <<"registry", ".", "acme", ".", "org", "/", "ns", "/",
                  "one", ":", "tag">> ->
         { <<"model", ".", "gguf">>, <<"README", ".", "md">> }
    [] target = <<"registry", ".", "acme", ".", "org", "/", "ns", "/",
                  "two", ":", "tag">> ->
         { <<"a", ".", "gguf">>, <<"b", ".", "gguf">> }
    [] target = <<"registry", ".", "acme", ".", "org", "/", "ns", "/",
                  "none", ":", "tag">> ->
         { <<"README", ".", "md">> }
    [] OTHER -> {}

\* oci_target_decompose(model) when it returns; Len(split) < 2 is the
\* ValueError of the tuple assignment, no "." in the registry the exit.
oci_target_decompose(model) ==
  LET target == StripPrefix(model, OciScheme)
      split == Split1(target, "/")
  IN [target |-> target,
      split |-> split,
      registry |-> split[1],
      reference_dir |-> IF Len(split) < 2 THEN <<>>
                        ELSE Replace(split[2], ":", "/")]

\* os.listdir(outdir), filtered by file.endswith('.gguf').
ggufs_in(files, outdir) ==
  { BaseName(f) : f \in { g \in files : DirName(g) = AbsPath(outdir)
                                        /\ EndsWith(g, <<".", "gguf">>) } }

\* pull_oci's test of the listing: len(ggufs) != 1.
oci_unidentified_none(ggufs) == Cardinality(ggufs) = 0

oci_unidentified(ggufs) == Cardinality(ggufs) # 1

\* pull_oci up to the return of the omlmd pull command (whose
\* CalledProcessError nothing catches): oci_target_decompose, then the
\* command, which writes the artifact's files into outdir.
pull_oci(p) ==
  /\ pc[p] = "oci"
  /\ LET o == oci_target_decompose(loc[p].arg)
         outdir == RamalamaStore \o <<"/", "repos", "/", "oci", "/">>
                   \o o.registry \o <<"/">> \o o.reference_dir
         cmd == Ran("omlmd", outdir, 0, <<>>)
     IN IF Len(o.split) < 2
        THEN /\ Uncaught(p, <<"ValueError">>)
             /\ UNCHANGED <<dirs, hub, loc, obs>>
        ELSE IF ~Contains(o.registry, ".")
        THEN /\ Exit(p, 1, <<"You must specify a registry for the model">>
                           \o loc[p].arg)
             /\ UNCHANGED <<dirs, hub, loc, obs>>
        ELSE \/ /\ OciArtifact(o.target) # {}
                /\ hub' = hub \cup { AbsPath(outdir \o <<"/">> \o f) :
                                     f \in OciArtifact(o.target) }
                /\ dirs' = MakeDirs(dirs, outdir)
                /\ obs' = [obs EXCEPT ![p].ran = @ \cup {cmd},
                                      ![p].wrote = TRUE]
                /\ loc' = [loc EXCEPT ![p].model = o.target,
                                      ![p].directory = o.registry \o <<"/">>
                                                       \o o.reference_dir,
                                      ![p].outdir = outdir]
                /\ pc' = [pc EXCEPT ![p] = "oci_ln"]
                /\ ret' = ret
             \/ /\ \E returncode \in Statuses :
                     obs' = [obs EXCEPT ![p].ran = @ \cup {cmd},
                                        ![p].failed = returncode]
                /\ Uncaught(p, <<"CalledProcessError">>)
                /\ UNCHANGED <<dirs, hub, loc>>
  /\ UNCHANGED <<procs, refs, blobs, manifests, symlinks, seen, pulled>>

\* pull_oci after the omlmd pull: the listing of outdir, the exit when it
\* does not hold exactly one .gguf file, else makedirs, relpath, the
\* check of the symlink that is there, and ln -sf.
pull_oci_ln(p) ==
  /\ pc[p] = "oci_ln"
  /\ LET ggufs == ggufs_in(hub, loc[p].outdir)
         directory == RamalamaStore \o <<"/", "models", "/", "oci", "/">>
                      \o loc[p].directory
     IN IF oci_unidentified(ggufs)
        THEN /\ Exit(p, ExitStatus(-1),
                     <<"Error: Unable to identify .gguf file in: ">>
                     \o loc[p].outdir)
             /\ UNCHANGED <<dirs, symlinks, loc, obs>>
        ELSE \E first \in ggufs :
               LET symlink_path == directory \o <<"/">> \o first
                   relative_target_path ==
                     RelPath(loc[p].outdir \o <<"/">> \o first,
                             DirName(symlink_path))
               IN /\ dirs' = MakeDirs(dirs, directory)
                  /\ publish(p, symlink_path, relative_target_path)
                  /\ Return(p, symlink_path)
                  /\ loc' = [loc EXCEPT ![p].symlink_path = symlink_path]
  /\ UNCHANGED <<procs, refs, blobs, manifests, hub, seen, pulled>>

(* ------------------------------------------------------------------ *)
(* URL (ramalama/url.py)                                              *)
(* ------------------------------------------------------------------ *)

\* The scheme of a URL reference, and what follows its "://".
UrlScheme(arg) == arg[1]
UrlModel(arg) == SubSeq(arg, 5, Len(arg))

\* URL.__init__: self.directory, from self.model.rsplit("/", 1).
url_directory(model) ==
  LET split == RSplit1(model, "/") IN
  IF Len(split) > 1 THEN StripPrefix(split[1], <<"/">>) ELSE <<>>

\* self.filename, set by the base class Model: the last path segment.
url_filename(model) == BaseName(model)

\* Model.model_path(args): the published path of the model.
url_model_path(type, model) ==
  PathJoin(PathJoin(PathJoin(PathJoin(RamalamaStore, <<"models">>),
                             <<type>>), url_directory(model)),
           url_filename(model))

\* URL.pull: directory_path and target_path.
url_directory_path(type, model) ==
  PathJoin(PathJoin(PathJoin(PathJoin(RamalamaStore, <<"repos">>),
                             <<type>>), url_directory(model)),
           url_filename(model))

url_target_path(type, model) ==
  PathJoin(url_directory_path(type, model), url_filename(model))

\* Model.check_valid_model_path(relative_target_path, model_path): the
\* symlink is there, names something that exists, and reads as the target.
check_valid_model_path(relative_target_path, model_path) ==
  /\ Exists(AbsPath(model_path))
  /\ AbsPath(model_path) \in DOMAIN symlinks
  /\ symlinks[AbsPath(model_path)] = relative_target_path

\* The test before os.symlink's file source: not os.path.exists(path),
\* without the test.
source_missing_unchecked(path) == FALSE

\* not os.path.exists(path), for the source of a "file" reference.
source_missing(path) == ~Exists(AbsPath(path))

\* HuggingfaceRepository.REGISTRY_URL
HuggingfaceRegistryUrl ==
  <<"https", ":", "/", "/", "huggingface", ".", "co">>

\* Model.extract_model_identifiers(), the base class: the tag after the
\* first ":" (else "latest"), the name after the last "/", the
\* organization before it.
base_model_identifiers(model) ==
  LET tagged == Contains(model, ":")
      full == IF tagged THEN Split1(model, ":")[1] ELSE model
      split == RSplit1(full, "/")
  IN [name |-> IF Len(split) > 1 THEN split[2] ELSE full,
      tag |-> IF tagged THEN Split1(model, ":")[2] ELSE <<"latest">>,
      organization |-> IF Len(split) > 1 THEN split[1] ELSE <<>>]

\* The second test of URL.extract_model_identifiers without its
\* REGISTRY_URL.endswith(parts[0]).
is_resolve_path_any_host(parts) ==
  Len(parts) > 2 /\ parts[Len(parts) - 1] = <<"resolve">>

\* The second test of URL.extract_model_identifiers.
is_resolve_path(parts) ==
  /\ Len(parts) > 2
  /\ EndsWith(HuggingfaceRegistryUrl, parts[1])
  /\ parts[Len(parts) - 1] = <<"resolve">>

\* URL.extract_model_identifiers(), given what the base class returned.
extract_model_identifiers(base) ==
  LET parts == SplitAll(base.organization, "/")
      cut == [name |-> base.name,
              tag |-> parts[Len(parts)],
              organization |-> JoinAll(SubSeq(parts, 1, Len(parts) - 2), "/")]
      blob == IF Len(parts) > 2 /\ parts[Len(parts) - 1] = <<"blob">>
              THEN cut ELSE base
  IN IF is_resolve_path(parts) THEN cut ELSE blob

\* One call of URL.extract_model_identifiers(), on what the base class
\* returned for the reference.
URL_extract_model_identifiers(p) ==
  /\ p \in procs
  /\ pc[p] = "idle"
  /\ loc' = [loc EXCEPT ![p].ids = extract_model_identifiers(loc[p].base)]
  /\ pc' = [pc EXCEPT ![p] = "done"]
  /\ UNCHANGED <<procs, refs, fsvars, ret, obs, seen, pulled>>

\* os.symlink(target, link) raises FileExistsError: something is at link.
symlink_exists(ds, links, link) ==
  AbsPath(link) \in DOMAIN links \/ LExists(ds, AbsPath(link))

\* The start of an invocation that pulls a URL reference: the store as it
\* is, nothing done yet.
UrlObs(ds) ==
  [Obs0 EXCEPT !.wrote = (ds # dirs), !.blobs = blobs,
               !.symlinks = symlinks, !.hub = hub]

\* URL.pull(args) with no model store.  For a "file" reference the whole
\* method: the two makedirs, the test of the source, the two os.symlink.
\* For another scheme up to the return of download_file, which writes
\* target_path or raises.
URL_pull(p, arg) ==
  /\ p \in procs
  /\ pc[p] = "idle"
  /\ arg \in refs
  /\ LET type == UrlScheme(arg)
         model == UrlModel(arg)
         model_path == url_model_path(type, model)
         directory_path == url_directory_path(type, model)
         symlink_dir == DirName(model_path)
         target_path == url_target_path(type, model)
         ds == MakeDirs(MakeDirs(dirs, directory_path), symlink_dir)
         first == PathJoin(symlink_dir, url_filename(model))
         one == Put(symlinks, AbsPath(first), model)
     IN /\ dirs' = ds
        /\ loc' = [loc EXCEPT ![p] =
                     [Loc0 EXCEPT !.arg = arg, !.model = model,
                                  !.type = type,
                                  !.filename = url_filename(model),
                                  !.directory = url_directory(model),
                                  !.symlink_path = model_path,
                                  !.file = target_path]]
        /\ IF type = "file"
           THEN /\ hub' = hub
                /\ IF source_missing(model)
                   THEN /\ Uncaught(p, <<"FileNotFoundError">>)
                        /\ symlinks' = symlinks
                        /\ obs' = [obs EXCEPT ![p] = UrlObs(ds)]
                   ELSE IF symlink_exists(ds, symlinks, first)
                   THEN /\ Uncaught(p, <<"FileExistsError">>)
                        /\ symlinks' = symlinks
                        /\ obs' = [obs EXCEPT ![p] = UrlObs(ds)]
                   ELSE IF symlink_exists(ds, one, target_path)
                   THEN /\ Uncaught(p, <<"FileExistsError">>)
                        /\ symlinks' = one
                        /\ obs' = [obs EXCEPT ![p] =
                                     [UrlObs(ds) EXCEPT !.wrote = TRUE]]
                   ELSE /\ Return(p, model_path)
                        /\ symlinks' = Put(one, AbsPath(target_path), model)
                        /\ obs' = [obs EXCEPT ![p] =
                                     [UrlObs(ds) EXCEPT !.wrote = TRUE]]
           ELSE /\ symlinks' = symlinks
                /\ \/ /\ hub' = hub \cup {AbsPath(target_path)}
                      /\ obs' = [obs EXCEPT ![p] =
                                   [UrlObs(ds) EXCEPT !.wrote = TRUE]]
                      /\ pc' = [pc EXCEPT ![p] = "url_ln"]
                      /\ ret' = ret
                   \/ /\ hub' = hub
                      /\ obs' = [obs EXCEPT ![p] =
                                   [UrlObs(ds) EXCEPT !.failed = 1]]
                      /\ Uncaught(p, <<"download_file">>)
  /\ UNCHANGED <<procs, refs, blobs, manifests, seen, pulled>>

\* URL.pull after download_file: relpath, check_valid_model_path, and
\* os.symlink when the symlink is not the one computed.
URL_pull_ln(p) ==
  /\ pc[p] = "url_ln"
  /\ LET model_path == loc[p].symlink_path
         relative_target_path == RelPath(loc[p].file, DirName(model_path))
     IN IF check_valid_model_path(relative_target_path, model_path)
        THEN /\ Return(p, model_path)
             /\ UNCHANGED <<symlinks, obs>>
        ELSE IF symlink_exists(dirs, symlinks, model_path)
        THEN /\ Uncaught(p, <<"FileExistsError">>)
             /\ UNCHANGED <<symlinks, obs>>
        ELSE /\ symlinks' = Put(symlinks, AbsPath(model_path),
                                relative_target_path)
             /\ obs' = obs
             /\ Return(p, model_path)
  /\ UNCHANGED <<procs, refs, dirs, blobs, manifests, hub, loc, seen, pulled>>

\* generate_sha256(name): the digest of the name, with its prefix.
\* Distinct names give distinct digests.
generate_sha256(name) == <<"sha256-">> \o name

\* The hash of a snapshot that an earlier pull, of other content, left.
StaleHash == <<"sha256-", "stale">>

\* The directory the model store keeps for one model.
store_base(type, ids) ==
  RamalamaStore \o <<"/", "store", "/", type, "/">>
    \o StripPrefix(ids.organization, <<"/">>) \o <<"/">> \o ids.name

\* store.get_blob_file_path(hash)
get_blob_file_path(type, ids, hash) ==
  store_base(type, ids) \o <<"/", "blobs", "/">> \o hash

\* store.get_snapshot_file_path(hash, name)
get_snapshot_file_path(type, ids, hash, name) ==
  store_base(type, ids) \o <<"/", "snapshots", "/">> \o hash
    \o <<"/">> \o name

\* store.get_cached_files(tag): what it can return as (hash, all).  No
\* snapshot is recorded for the tag, or one is and its file has its blob.
get_cached_files(type, ids) ==
  { [hash |-> <<>>, all |-> FALSE] } \cup
  { [hash |-> h, all |-> TRUE] :
      h \in { h \in {generate_sha256(ids.name), StaleHash} :
                Exists(AbsPath(get_snapshot_file_path(type, ids, h,
                                                      ids.name))) } }

\* The record of a call on the store: the function, the hash and the tag
\* or name given to it, the number of required files given to it; for
\* get_cached_files the hash and the "all" it returned.
Call(fn, hash, name, required, all) ==
  [fn |-> fn, hash |-> hash, name |-> name, required |-> required,
   all |-> all]

\* "if all:" of URL._pull_with_model_store, reading any result as not
\* complete.
is_cached_never(all) == FALSE

\* "if all:" of URL._pull_with_model_store.
is_cached(all) == all

\* URL.pull(args) with a model store: _pull_with_model_store up to its
\* return on a complete snapshot, or to the call of new_snapshot with the
\* one file it appends.
URL_pull_with_model_store(p, arg) ==
  /\ p \in procs
  /\ pc[p] = "idle"
  /\ arg \in refs
  /\ LET type == UrlScheme(arg)
         model == UrlModel(arg)
         ids == extract_model_identifiers(base_model_identifiers(model))
         name == ids.name
         tag == ids.tag
         snapshot_hash == generate_sha256(name)
     IN \E cached \in get_cached_files(type, ids) :
          LET asked == <<Call("get_cached_files", cached.hash, tag, 0,
                              cached.all)>>
          IN
          IF is_cached(cached.all)
          THEN /\ loc' = [loc EXCEPT ![p] =
                            [Loc0 EXCEPT !.arg = arg, !.model = model,
                                         !.type = type, !.ids = ids,
                                         !.digest = cached.hash]]
               /\ obs' = [obs EXCEPT ![p] =
                            [UrlObs(dirs) EXCEPT !.calls = asked \o
                               <<Call("get_snapshot_file_path", cached.hash,
                                      name, 0, FALSE)>>]]
               /\ Return(p, get_snapshot_file_path(type, ids, cached.hash,
                                                   name))
          ELSE /\ loc' = [loc EXCEPT ![p] =
                            [Loc0 EXCEPT !.arg = arg, !.model = model,
                                         !.type = type, !.ids = ids,
                                         !.digest = snapshot_hash,
                                         !.idx = 1]]
               /\ obs' = [obs EXCEPT ![p] =
                            [UrlObs(dirs) EXCEPT !.calls = asked]]
               /\ pc' = [pc EXCEPT ![p] = "new_snapshot"]
               /\ ret' = ret
  /\ UNCHANGED <<procs, refs, fsvars, seen, pulled>>

\* store.new_snapshot(tag, snapshot_hash, files) on the one file: the
\* file's download when its blob is not there (LocalModelFile.download
\* for a "file" reference: the test of the source, then shutil.copy),
\* then the snapshot's entry for the file.
new_snapshot(p) ==
  /\ pc[p] = "new_snapshot"
  /\ LET type == loc[p].type
         ids == loc[p].ids
         snapshot_hash == loc[p].digest
         blob_file_path == get_blob_file_path(type, ids, snapshot_hash)
         entry == get_snapshot_file_path(type, ids, snapshot_hash, ids.name)
         snapshot_dir == DirName(entry)
         called == [obs EXCEPT ![p].calls =
                      Append(@, Call("new_snapshot", snapshot_hash, ids.tag,
                                     loc[p].idx, FALSE))]
         record ==
           /\ dirs' = MakeDirs(MakeDirs(dirs, DirName(blob_file_path)),
                               snapshot_dir)
           /\ hub' = hub \cup {AbsPath(blob_file_path)}
           /\ symlinks' = Put(symlinks, AbsPath(entry),
                              RelPath(blob_file_path, snapshot_dir))
           /\ obs' = [called EXCEPT ![p].wrote = TRUE]
           /\ pc' = [pc EXCEPT ![p] = "lookup"]
           /\ ret' = ret
         fail(exception) ==
           /\ Uncaught(p, exception)
           /\ obs' = [called EXCEPT ![p].failed = 1]
           /\ UNCHANGED <<dirs, hub, symlinks>>
     IN IF AbsPath(blob_file_path) \in hub
        THEN record
        ELSE IF type = "file"
        THEN IF source_missing(loc[p].model)
             THEN fail(<<"FileNotFoundError">>)
             ELSE record
        ELSE record \/ fail(<<"download_file">>)
  /\ UNCHANGED <<procs, refs, blobs, manifests, loc, seen, pulled>>

\* The last line of URL._pull_with_model_store.
URL_get_snapshot_file_path(p) ==
  /\ pc[p] = "lookup"
  /\ obs' = [obs EXCEPT ![p].calls =
               Append(@, Call("get_snapshot_file_path", loc[p].digest,
                              loc[p].ids.name, 0, FALSE))]
  /\ Return(p, get_snapshot_file_path(loc[p].type, loc[p].ids,
                                      loc[p].digest, loc[p].ids.name))
  /\ UNCHANGED <<procs, refs, fsvars, loc, seen, pulled>>

(* ------------------------------------------------------------------ *)
(* The environment                                                    *)
(* ------------------------------------------------------------------ *)

\* The process is killed while its curl command runs: the partial file
\* stays under the blob path.
Interrupt(p) ==
  /\ pc[p] = "curl"
  /\ pc' = [pc EXCEPT ![p] = "done"]
  /\ ret' = [ret EXCEPT ![p] = [Ret0 EXCEPT !.kind = "killed"]]
  /\ UNCHANGED <<procs, refs, fsvars, loc, obs, seen, pulled>>

\* The process is gone; the next invocation is a fresh one.
Finish(p) ==
  /\ pc[p] = "done"
  /\ pulled' = IF ret[p].kind = "path"
               THEN Put(pulled, loc[p].arg, ret[p].path) ELSE pulled
  /\ pc' = [pc EXCEPT ![p] = "idle"]
  /\ loc' = [loc EXCEPT ![p] = Loc0]
  /\ ret' = [ret EXCEPT ![p] = Ret0]
  /\ obs' = [obs EXCEPT ![p] = Obs0]
  /\ UNCHANGED <<procs, refs, fsvars, seen>>

\* Between invocations, one byte of a blob file is altered.
Corrupt(path, i) ==
  /\ \A p \in AllProcs : pc[p] = "idle"
  /\ path \in DOMAIN blobs
  /\ i \in 1..Len(blobs[path])
  /\ blobs' = [blobs EXCEPT ![path][i] = 1 - @]
  /\ UNCHANGED <<procs, refs, dirs, manifests, hub, symlinks,
                 pc, loc, ret, obs, seen, pulled>>

\* Another process reads a published model, as list_cli does for every
\* symlink under models/ (path.resolve(), then du on what it names).
list_cli_entry(link) ==
  /\ link \in DOMAIN symlinks
  /\ seen' = IF Published(link) \in DOMAIN blobs
             THEN [kind |-> "file", path |-> Published(link),
                   content |-> blobs[Published(link)]]
             ELSE [kind |-> "missing", path |-> Published(link),
                   content |-> <<>>]
  /\ UNCHANGED <<procs, refs, fsvars, pc, loc, ret, obs, pulled>>

(* ------------------------------------------------------------------ *)
(* Specifications                                                     *)
(* ------------------------------------------------------------------ *)

InitStore ==
  /\ dirs = {}
  /\ blobs = <<>>
  /\ manifests = <<>>
  /\ hub = {}
  /\ symlinks = <<>>
  /\ pc = [p \in AllProcs |-> "idle"]
  /\ loc = [p \in AllProcs |-> Loc0]
  /\ ret = [p \in AllProcs |-> Ret0]
  /\ obs = [p \in AllProcs |-> Obs0]
  /\ seen = [kind |-> "nothing", path |-> <<>>, content |-> <<>>]
  /\ pulled = <<>>

\* The Ollama references of the sequential specification.
OllamaRefs ==
  { <<"llama3">>, <<"llama3", ":", "8b">>, <<"bare">>,
    <<"doesnotexist">> }

\* One ramalama process at a time pulls Ollama references from a fresh
\* store; between invocations a blob file may be altered.
Init ==
  /\ InitStore
  /\ procs = {1}
  /\ refs = OllamaRefs

OllamaStep(p) ==
  \/ pull_ollama_manifest(p)
  \/ pull_ollama_config_blob(p)
  \/ init_pull_layer(p)
  \/ curl_write(p)
  \/ curl_done(p)
  \/ curl_fail(p)
  \/ pull_ollama_blob_ln(p)

Next ==
  \/ \E p \in AllProcs :
       \/ \E arg \in refs : pull_cli(p, arg)
       \/ OllamaStep(p)
       \/ Interrupt(p)
       \/ Finish(p)
  \/ \E path \in DOMAIN blobs : \E i \in 1..(BlobLen + 1) : Corrupt(path, i)

Spec == Init /\ [][Next]_vars

\* Two ramalama processes pull the same Ollama tag on one store while a
\* third process reads what is published.
InitConc ==
  /\ InitStore
  /\ procs = AllProcs
  /\ refs = { <<"llama3", ":", "8b">> }

NextConc ==
  \/ \E p \in AllProcs :
       \/ \E arg \in refs : pull_cli(p, arg)
       \/ OllamaStep(p)
       \/ Finish(p)
  \/ \E link \in DOMAIN symlinks : list_cli_entry(link)

SpecConc == InitConc /\ [][NextConc]_vars

\* The Hugging Face and OCI references of the hub specification.
HubRefs ==
  { HuggingfaceScheme \o <<"org", "/", "repo", "/", "model", ".", "gguf">>,
    HuggingfaceScheme \o <<"model", ".", "gguf">>,
    OciScheme \o <<"registry", ".", "acme", ".", "org", "/", "ns", "/",
                   "one", ":", "tag">>,
    OciScheme \o <<"registry", ".", "acme", ".", "org", "/", "ns", "/",
                   "two", ":", "tag">>,
    OciScheme \o <<"registry", ".", "acme", ".", "org", "/", "ns", "/",
                   "none", ":", "tag">>,
    OciScheme \o <<"localhost", "/", "ns", "/", "one", ":", "tag">>,
    OciScheme \o <<"repo", ":", "tag">> }

\* One ramalama process at a time pulls Hugging Face and OCI references
\* from a fresh store.
InitHub ==
  /\ InitStore
  /\ procs = {1}
  /\ refs = HubRefs

NextHub ==
  \E p \in AllProcs :
    \/ \E arg \in refs : pull_cli(p, arg)
    \/ try_huggingface_download(p)
    \/ pull_huggingface_ln(p)
    \/ pull_oci(p)
    \/ pull_oci_ln(p)
    \/ Finish(p)

SpecHub == InitHub /\ [][NextHub]_vars

\* One process at a time pulls Ollama references whose manifests name
\* two model layers (duo) and none (bare); a pull may be killed.
LayerRefs == { <<"duo">>, <<"bare">> }

InitLayers ==
  /\ InitStore
  /\ procs = {1}
  /\ refs = LayerRefs

NextLayers ==
  \E p \in AllProcs :
    \/ \E arg \in refs : pull_cli(p, arg)
    \/ OllamaStep(p)
    \/ ln_sf_unlink(p)
    \/ Interrupt(p)
    \/ Finish(p)

SpecLayers == InitLayers /\ [][NextLayers]_vars

\* One process at a time pulls Ollama references whose manifests name a
\* license layer before the model layer (llama3) and after it (tail); a
\* pull may be killed.
FrameRefs == { <<"llama3">>, <<"tail">> }

InitFrame ==
  /\ InitStore
  /\ procs = {1}
  /\ refs = FrameRefs

NextFrame ==
  \E p \in AllProcs :
    \/ \E arg \in refs : pull_cli(p, arg)
    \/ OllamaStep(p)
    \/ Interrupt(p)
    \/ Finish(p)

SpecFrame == InitFrame /\ [][NextFrame]_vars

\* One process at a time pulls two Ollama references that differ in
\* their namespace only.
NamespaceRefs ==
  { <<"llama3", ":", "8b">>, <<"myorg", "/", "llama3", ":", "8b">> }

InitNamespace ==
  /\ InitStore
  /\ procs = {1}
  /\ refs = NamespaceRefs

NextNamespace ==
  \E p \in AllProcs :
    \/ \E arg \in refs : pull_cli(p, arg)
    \/ OllamaStep(p)
    \/ Finish(p)

SpecNamespace == InitNamespace /\ [][NextNamespace]_vars

\* The organization paths URL.extract_model_identifiers is given: every
\* path of up to MaxSegs segments, the empty segment among them.
PathSegments ==
  { <<"huggingface", ".", "co">>, <<"co">>, <<"org">>, <<"blob">>,
    <<"resolve">>, <<"main">>, <<>> }

OrganizationPaths ==
  { JoinAll(segs, "/") :
      segs \in UNION { [1..n -> PathSegments] : n \in 1..MaxSegs } }

InitIdent ==
  /\ dirs = {} /\ blobs = <<>> /\ manifests = <<>> /\ hub = {}
  /\ symlinks = <<>>
  /\ pc = [p \in AllProcs |-> "idle"]
  /\ \E organization \in OrganizationPaths :
       loc = [p \in AllProcs |->
                [Loc0 EXCEPT !.base = [name |-> <<"model", ".", "gguf">>,
                                       tag |-> <<"latest">>,
                                       organization |-> organization]]]
  /\ ret = [p \in AllProcs |-> Ret0]
  /\ obs = [p \in AllProcs |-> Obs0]
  /\ seen = [kind |-> "nothing", path |-> <<>>, content |-> <<>>]
  /\ pulled = <<>>
  /\ procs = {1}
  /\ refs = {}

NextIdent == URL_extract_model_identifiers(1)

SpecIdent == InitIdent /\ [][NextIdent]_vars

\* The files of the host that "file" references name.
HostFiles == { <<"/", "host", "/", "model", ".", "gguf">> }

\* The references of the URL specification: a local file that is there,
\* one that is not, and a download.
UrlRefs ==
  { <<"file", ":", "/", "/", "/", "host", "/", "model", ".", "gguf">>,
    <<"file", ":", "/", "/", "/", "host", "/", "gone", ".", "gguf">>,
    <<"https", ":", "/", "/", "example", ".", "com", "/", "org", "/",
      "model", ".", "gguf">> }

\* The snapshot an earlier pull left for a reference.
StaleBlob(arg) ==
  get_blob_file_path(UrlScheme(arg),
    extract_model_identifiers(base_model_identifiers(UrlModel(arg))),
    StaleHash)

StaleEntry(arg) ==
  LET ids == extract_model_identifiers(base_model_identifiers(UrlModel(arg)))
  IN get_snapshot_file_path(UrlScheme(arg), ids, StaleHash, ids.name)

\* The store is empty, or holds the snapshots of earlier pulls.
InitUrl ==
  /\ blobs = <<>> /\ manifests = <<>>
  /\ \E had \in {{}, UrlRefs} :
       /\ hub = HostFiles \cup { AbsPath(StaleBlob(arg)) : arg \in had }
       /\ symlinks = [l \in { AbsPath(StaleEntry(arg)) : arg \in had } |->
                        <<"..", "/", "..", "/", "blobs", "/">> \o StaleHash]
       /\ dirs = UNION { Ancestors(DirName(StaleBlob(arg)))
                           \cup Ancestors(DirName(StaleEntry(arg)))
                         : arg \in had }
  /\ pc = [p \in AllProcs |-> "idle"]
  /\ loc = [p \in AllProcs |-> Loc0]
  /\ ret = [p \in AllProcs |-> Ret0]
  /\ obs = [p \in AllProcs |-> Obs0]
  /\ seen = [kind |-> "nothing", path |-> <<>>, content |-> <<>>]
  /\ pulled = <<>>
  /\ procs = {1}
  /\ refs = UrlRefs

NextUrl ==
  \E p \in AllProcs :
    \/ \E arg \in refs : URL_pull(p, arg)
    \/ URL_pull_ln(p)
    \/ \E arg \in refs : URL_pull_with_model_store(p, arg)
    \/ new_snapshot(p)
    \/ URL_get_snapshot_file_path(p)
    \/ Finish(p)

SpecUrl == InitUrl /\ [][NextUrl]_vars

\* The reference strings given to pull_cli when only its parsing is
\* looked at: every string of up to MaxRefLen pieces, bare or behind the
\* ollama:// scheme.
RefPieces == {"llama3", "myorg", "8b", "/", ":"}

RefBodies == UNION { [1..n -> RefPieces] : n \in 1..MaxRefLen }

ParseRefs ==
  RefBodies \cup { OllamaScheme \o b : b \in { r \in RefBodies : Len(r) <= 3 } }

InitParse ==
  /\ InitStore
  /\ procs = {1}
  /\ refs = ParseRefs

NextParse == \E arg \in refs : pull_cli(1, arg)

SpecParse == InitParse /\ [][NextParse]_vars

(* ------------------------------------------------------------------ *)
(* Vocabulary of the properties                                       *)
(* ------------------------------------------------------------------ *)

\* content is the first Len(content) bytes of whole, and not all of it.
IsProperPrefix(content, whole) ==
  /\ Len(content) < Len(whole)
  /\ content = SubSeq(whole, 1, Len(content))

\* The digests of the model-content layers of a manifest, in order.
ModelLayers(data) ==
  SelectSeq(data.layers, LAMBDA l : l.mediaType = ModelMediaType)

\* The invocation of p ran curl for the blob file of digest d.
RanCurlFor(p, d) ==
  \E r \in obs[p].ran : r.cmd = "curl" /\ r.file = BlobPath(d)

\* a occurs in s as a run of consecutive tokens.
HasSubstring(s, a) ==
  \E i \in 0..(Len(s) - Len(a)) : SubSeq(s, i + 1, i + Len(a)) = a

\* The reference a user names: the model string, with ":latest" when it
\* carries no tag.
HumanReference(model) ==
  IF Contains(model, ":") THEN model ELSE model \o <<":", "latest">>

(* ------------------------------------------------------------------ *)
(* C2                                                                 *)
(* ------------------------------------------------------------------ *)

\* C2: Integrity on download.  Every symlink an invocation has published
\* with ln -sf names a blob file whose SHA-256 is the digest in its name:
\* a fetch that left other content there made the pull abort before ln.
C2_IntegrityOnDownload ==
  \A p \in AllProcs : \A r \in obs[p].ran :
    r.cmd = "ln" => verify_checksum(LinkDest(AbsPath(r.file), r.target))

(* ------------------------------------------------------------------ *)
(* C3                                                                 *)
(* ------------------------------------------------------------------ *)

\* The blob of digest d was, when the invocation of p started, a partial
\* file: a proper prefix of the registry's content.
PartialAtStart(p, d) ==
  /\ AbsPath(BlobPath(d)) \in DOMAIN obs[p].blobs
  /\ IsProperPrefix(obs[p].blobs[AbsPath(BlobPath(d))], RegistryBlob(d))

\* C3: Resume after interruption.  When an invocation starts with a
\* partial file of N bytes under blobs/<digest> and no published symlink,
\* it does not skip that blob (once past its run_curl_cmd, curl has run
\* for it), every curl it runs for it resumes from offset N, and any
\* symlink it publishes is published with that blob complete and
\* verified.
C3_ResumeAfterInterruption ==
  \A p \in AllProcs : \A c \in RegistryContents :
    LET d == DigestOf(c)
        N == Len(obs[p].blobs[AbsPath(BlobPath(d))])
        cfg == loc[p].manifest_data.config.digest
    IN (PartialAtStart(p, d)
        /\ AbsPath(loc[p].symlink_path) \notin DOMAIN obs[p].symlinks)
       =>
       /\ \A r \in obs[p].ran :
            (r.cmd = "curl" /\ r.file = BlobPath(d)) => r.from = N
       /\ (d = cfg /\ pc[p] \in {"layers", "ln"}) => RanCurlFor(p, d)
       /\ (d = loc[p].digest /\ pc[p] = "ln") => RanCurlFor(p, d)
       /\ \A r \in obs[p].ran :
            (r.cmd = "ln"
             /\ (d = cfg \/ LinkDest(AbsPath(r.file), r.target) = AbsPath(BlobPath(d))))
            => (RanCurlFor(p, d) /\ verify_checksum(BlobPath(d)))

\* A pull returned its published path after resuming a model layer that
\* an interrupted pull had left with one byte or more.
C3_Witness ==
  \E p \in AllProcs :
    /\ pc[p] = "done"
    /\ ret[p].kind = "path"
    /\ Len(ModelLayers(loc[p].manifest_data)) = 1
    /\ LET d == ModelLayers(loc[p].manifest_data)[1].digest
       IN /\ PartialAtStart(p, d)
          /\ Len(obs[p].blobs[AbsPath(BlobPath(d))]) >= 1
          /\ RanCurlFor(p, d)
          /\ AbsPath(loc[p].symlink_path) \in DOMAIN symlinks
          /\ verify_checksum(Published(AbsPath(loc[p].symlink_path)))

(* ------------------------------------------------------------------ *)
(* C4                                                                 *)
(* ------------------------------------------------------------------ *)

\* The invocation of p is a pull of a tag not yet published whose
\* manifest names one model layer, of digest d, while another tag's
\* symlink `other`, published before, names the verified blob of d.
SecondTagOf(p, other, d) ==
  /\ ret[p].kind = "path"
  /\ Len(ModelLayers(loc[p].manifest_data)) = 1
  /\ d = ModelLayers(loc[p].manifest_data)[1].digest
  /\ AbsPath(loc[p].symlink_path) \notin DOMAIN obs[p].symlinks
  /\ other \in DOMAIN obs[p].symlinks
  /\ other # AbsPath(loc[p].symlink_path)
  /\ LinkDest(other, obs[p].symlinks[other]) = AbsPath(BlobPath(d))
  /\ AbsPath(BlobPath(d)) \in DOMAIN obs[p].blobs
  /\ obs[p].blobs[AbsPath(BlobPath(d))] = RegistryBlob(d)

\* C4: Deduplication.  After the pull of a second tag whose manifest
\* names the model-layer digest of a tag pulled before, the store holds
\* one blob file for that digest, the second pull ran no fetch for it and
\* left it as it was, and the two tags' symlinks are distinct and both
\* resolve to that one blob.
C4_Deduplication ==
  \A p \in AllProcs : \A other \in DOMAIN obs[p].symlinks :
    \A c \in RegistryContents :
      LET d == DigestOf(c)
          mine == AbsPath(loc[p].symlink_path)
      IN (pc[p] = "done" /\ SecondTagOf(p, other, d))
         =>
         /\ ~RanCurlFor(p, d)
         /\ Cardinality({f \in DOMAIN blobs : BaseName(f) = d}) = 1
         /\ blobs[AbsPath(BlobPath(d))] = obs[p].blobs[AbsPath(BlobPath(d))]
         /\ mine \in DOMAIN symlinks /\ other \in DOMAIN symlinks
         /\ mine # other
         /\ Published(mine) = AbsPath(BlobPath(d))
         /\ Published(other) = AbsPath(BlobPath(d))

\* The pull of a second tag sharing the first tag's model layer returned.
C4_Witness ==
  \E p \in AllProcs : \E other \in DOMAIN obs[p].symlinks :
    /\ pc[p] = "done"
    /\ SecondTagOf(p, other, DigestOf(ModelContent))
    /\ Cardinality(DOMAIN symlinks) = 2

(* ------------------------------------------------------------------ *)
(* C5                                                                 *)
(* ------------------------------------------------------------------ *)

\* C5: Digest integrity on re-pull.  A pull of a reference that was
\* published before this invocation returns the published path only
\* when the blob behind it exists and hashes to its digest.
C5_DigestIntegrityOnRepull ==
  \A p \in AllProcs :
    (pc[p] = "done" /\ ret[p].kind = "path"
     /\ AbsPath(ret[p].path) \in DOMAIN obs[p].symlinks)
    => /\ AbsPath(ret[p].path) \in DOMAIN symlinks
       /\ verify_checksum(Published(AbsPath(ret[p].path)))

(* ------------------------------------------------------------------ *)
(* C6                                                                 *)
(* ------------------------------------------------------------------ *)

\* C6: Not-found mapping.  An Ollama pull that ends because a fetch
\* exited with the not-found status has printed a message that names the
\* human reference, has a non-zero exit status, and has created no
\* symlink under models/.
C6_NotFoundMapping ==
  \A p \in AllProcs :
    (pc[p] = "done" /\ ret[p].kind = "exit"
     /\ ret[p].status = NotFoundStatus)
    => /\ HasSubstring(ret[p].msg, HumanReference(loc[p].model))
       /\ ret[p].status # 0
       /\ symlinks = obs[p].symlinks

(* ------------------------------------------------------------------ *)
(* C8                                                                 *)
(* ------------------------------------------------------------------ *)

\* No partially written blob is visible under its final name: every
\* file under blobs/ hashes to the digest in its name.
C8_NoPartialBlob == \A f \in DOMAIN blobs : verify_checksum(f)

\* The blob the two writers leave behind hashes to its digest: when no
\* process is running, every published blob verifies.
C8_FinalBlobIntact ==
  (\A p \in AllProcs : pc[p] \in {"idle", "done"})
  => \A link \in DOMAIN symlinks : verify_checksum(Published(link))

\* A reader that resolved a published symlink found a complete blob.
C8_ReaderSeesComplete ==
  seen.kind = "file" =>
    <<Sha256Hex(seen.content)>> = SplitAll(BaseName(seen.path), ":")[2]

\* C8: Concurrent pulls of the same tag.  While two invocations pull the
\* same reference and a reader resolves the published symlink, no partial
\* blob is visible under blobs/<digest>, the writers leave a blob that
\* hashes to its digest, and the reader sees no model or a complete blob.
C8_ConcurrentPulls ==
  /\ C8_NoPartialBlob
  /\ C8_FinalBlobIntact
  /\ C8_ReaderSeesComplete

(* ------------------------------------------------------------------ *)
(* C1                                                                 *)
(* ------------------------------------------------------------------ *)

\* C1: Idempotence of pull.  A pull of a reference whose earlier pull
\* returned a path, with no fetch failing this time, returns that same
\* path and has written nothing to the filesystem.
C1_IdempotentPull ==
  \A p \in AllProcs :
    (pc[p] = "done" /\ loc[p].arg \in DOMAIN pulled /\ obs[p].failed = 0)
    => /\ ret[p].kind = "path"
       /\ ret[p].path = pulled[loc[p].arg]
       /\ ~obs[p].wrote

(* ------------------------------------------------------------------ *)
(* C7                                                                 *)
(* ------------------------------------------------------------------ *)

\* C7: Transport-failure mapping.  A pull whose fetch command failed
\* with a status other than not-found has ended without returning a
\* path, with that status as the exit status, and with every symlink as
\* it was when the pull started.
C7_TransportFailure ==
  \A p \in AllProcs :
    (pc[p] = "done" /\ obs[p].failed # 0 /\ obs[p].failed # NotFoundStatus)
    => /\ ret[p].kind # "path"
       /\ ret[p].status = obs[p].failed
       /\ symlinks = obs[p].symlinks

(* ------------------------------------------------------------------ *)
(* C9                                                                 *)
(* ------------------------------------------------------------------ *)

\* The invocation of p is an OCI pull whose omlmd pull command returned.
OciPulled(p) ==
  /\ pc[p] = "done"
  /\ obs[p].failed = 0
  /\ \E r \in obs[p].ran : r.cmd = "omlmd"

\* C9: OCI ambiguity.  After the omlmd pull, when its output directory
\* holds no or several .gguf files the pull has exited with a non-zero
\* status and every symlink is as it was; when it holds exactly one, the
\* pull has returned a symlink under models/oci that carries the file's
\* name and resolves to the file.
C9_OciAmbiguity ==
  \A p \in AllProcs :
    OciPulled(p) =>
      LET ggufs == ggufs_in(hub, loc[p].outdir) IN
      IF Cardinality(ggufs) # 1
      THEN /\ ret[p].kind = "exit"
           /\ ret[p].status # 0
           /\ symlinks = obs[p].symlinks
      ELSE /\ ret[p].kind = "path"
           /\ AbsPath(ret[p].path) \in DOMAIN symlinks
           /\ StartsWith(ret[p].path,
                         RamalamaStore \o <<"/", "models", "/", "oci", "/">>)
           /\ BaseName(ret[p].path) \in ggufs
           /\ Published(AbsPath(ret[p].path))
                = AbsPath(loc[p].outdir \o <<"/">> \o BaseName(ret[p].path))
           /\ Published(AbsPath(ret[p].path)) \in hub

\* An OCI pull found two .gguf files and exited, in a store where an
\* earlier pull of a one-file artifact had published its symlink.
C9_Witness ==
  \E p \in AllProcs :
    /\ OciPulled(p)
    /\ Cardinality(ggufs_in(hub, loc[p].outdir)) = 2
    /\ ret[p].kind = "exit"
    /\ \E link \in DOMAIN symlinks :
         /\ EndsWith(link, <<".", "gguf">>)
         /\ Published(link) \in hub

(* ------------------------------------------------------------------ *)
(* C10                                                                *)
(* ------------------------------------------------------------------ *)

\* C10: Ollama reference parsing.  When pull_cli has taken a reference
\* down its Ollama branch, with model the reference less an "ollama://"
\* in front: the namespace is what stands before the first "/" of model,
\* or "library" when it has none; the tag is what stands after the last
\* ":" of model, or "latest" when it has none; the name is what remains;
\* and the pull goes on with <namespace>/<name> as model_name and the tag
\* as model_tag.
C10_ReferenceParsing ==
  \A p \in AllProcs :
    pc[p] = "manifest" =>
      LET model == StripPrefix(loc[p].arg, OllamaScheme)
          tag == IF Contains(model, ":") THEN RSplit1(model, ":")[2]
                 ELSE <<"latest">>
          untagged == IF Contains(model, ":") THEN RSplit1(model, ":")[1]
                      ELSE model
          namespace == IF Contains(model, "/") THEN Split1(model, "/")[1]
                       ELSE <<"library">>
          name == IF Contains(untagged, "/") THEN Split1(untagged, "/")[2]
                  ELSE untagged
      IN /\ loc[p].model_name = namespace \o <<"/">> \o name
         /\ loc[p].model_tag = tag

(* ------------------------------------------------------------------ *)
(* C11                                                                *)
(* ------------------------------------------------------------------ *)

\* The registry host of an "oci://" reference: what stands before the
\* first "/" of the reference less its scheme, all of it when it has
\* no "/".
OciHost(arg) ==
  LET target == StripPrefix(arg, OciScheme)
  IN IF Contains(target, "/") THEN SubSeq(target, 1, Find(target, "/") - 1)
     ELSE target

\* C11: OCI reference validation.  A pull of an "oci://" reference whose
\* registry host holds no "." ends with the invalid-reference message
\* and exit status 1 without the omlmd command having run; a pull of one
\* whose host holds a "." goes on with the host as registry and the rest,
\* its ":" turned into "/", as reference directory.
C11_OciReferenceValidation ==
  \A p \in AllProcs :
    /\ (pc[p] = "done" /\ StartsWith(loc[p].arg, OciScheme)
        /\ ~Contains(OciHost(loc[p].arg), "."))
       => /\ ret[p].kind = "exit"
          /\ ret[p].status = 1
          /\ Len(ret[p].msg) > 0
          /\ ret[p].msg[1] = "You must specify a registry for the model"
          /\ \A r \in obs[p].ran : r.cmd # "omlmd"
    /\ (pc[p] = "oci_ln"
        /\ loc[p].arg = OciScheme \o <<"registry", ".", "acme", ".", "org",
                                       "/", "ns", "/", "one", ":", "tag">>)
       => loc[p].directory = <<"registry", ".", "acme", ".", "org", "/",
                               "ns", "/", "one", "/", "tag">>

(* ------------------------------------------------------------------ *)
(* C12                                                                *)
(* ------------------------------------------------------------------ *)

\* C12: Published path is addressable.  The path an Ollama pull has
\* returned is a symlink that exists under models/ollama and names the
\* blob file of a model-content layer of the reference's manifest.
C12_PublishedPathAddressable ==
  \A p \in AllProcs :
    (pc[p] = "done" /\ ret[p].kind = "path")
    => LET n == pull_cli_names(loc[p].arg)
           data == RegistryManifest(n.model_name, n.model_tag)
           link == AbsPath(ret[p].path)
       IN /\ link \in DOMAIN symlinks
          /\ StartsWith(link, RamalamaStore
                              \o <<"/", "models", "/", "ollama", "/">>)
          /\ Published(link) \in DOMAIN blobs
          /\ \E i \in 1..Len(data.layers) :
               /\ data.layers[i].mediaType = ModelMediaType
               /\ Published(link) = AbsPath(BlobPath(data.layers[i].digest))

(* ------------------------------------------------------------------ *)
(* C13                                                                *)
(* ------------------------------------------------------------------ *)

\* The indices of the model-content layers of the manifest p has loaded.
ModelIdx(p) ==
  { i \in 1..Len(loc[p].manifest_data.layers) :
      loc[p].manifest_data.layers[i].mediaType = ModelMediaType }

\* The blob file of layer i of the manifest p has loaded.
LayerBlob(p, i) == BlobPath(loc[p].manifest_data.layers[i].digest)

\* The invocation of p ran curl for layer i.
FetchedLayer(p, i) ==
  \E r \in obs[p].ran : r.cmd = "curl" /\ r.file = LayerBlob(p, i)

\* The invocation of p ran ln -sf with the blob of layer i as target.
LinkedLayer(p, i) ==
  \E r \in obs[p].ran :
    /\ r.cmd = "ln"
    /\ LinkDest(AbsPath(r.file), r.target) = AbsPath(LayerBlob(p, i))

\* The invocation of p ran a command for a blob or for the symlink.
PastManifest(p) ==
  \E r \in obs[p].ran : r.cmd = "ln" \/ r.file # loc[p].manifests

\* The invocation of p ran a command for a model layer.
AtLayers(p) == \E i \in ModelIdx(p) : FetchedLayer(p, i) \/ LinkedLayer(p, i)

\* C13: Fetch ordering in an Ollama pull.  A command for a blob or the
\* symlink has run only after the manifest fetch returned and the
\* manifest was loaded; a command for a model layer has run only after
\* the config blob fetch returned; a command for a model layer has run
\* only after every model layer before it in the manifest was linked;
\* and once a fetch has failed the pull has ended with an exit, with no
\* command run for a later step.
C13_FetchOrdering ==
  \A p \in AllProcs :
    LET cfg == BlobPath(loc[p].manifest_data.config.digest) IN
    /\ PastManifest(p)
       => /\ \E r \in obs[p].ran : r.cmd = "curl" /\ r.file = loc[p].manifests
          /\ AbsPath(loc[p].manifests) \in DOMAIN manifests
          /\ loc[p].manifest_data # NoManifest
          /\ pc[p] # "manifest"
    /\ AtLayers(p)
       => /\ pc[p] \notin {"manifest", "config"}
          /\ loc[p].file # cfg
          /\ AbsPath(cfg) \in DOMAIN blobs
    /\ \A i \in ModelIdx(p) : \A j \in ModelIdx(p) :
         (i < j /\ (FetchedLayer(p, j) \/ LinkedLayer(p, j)))
         => LinkedLayer(p, i)
    /\ obs[p].failed # 0
       => /\ pc[p] = "done"
          /\ ret[p].kind = "exit"
          /\ loc[p].manifest_data = NoManifest => ~PastManifest(p)
          /\ loc[p].file = cfg
             => (~AtLayers(p) /\ \A r \in obs[p].ran : r.cmd # "ln")
          /\ \A i \in ModelIdx(p) :
               loc[p].file = LayerBlob(p, i)
               => /\ ~LinkedLayer(p, i)
                  /\ \A j \in ModelIdx(p) :
                       j > i => (~FetchedLayer(p, j) /\ ~LinkedLayer(p, j))

\* The pull of a manifest with two model layers fetched and linked the
\* first, and ended on the failure of the fetch of the second.
C13_Witness ==
  \E p \in AllProcs :
    /\ pc[p] = "done"
    /\ obs[p].failed # 0
    /\ ModelIdx(p) = {1, 2}
    /\ FetchedLayer(p, 1) /\ LinkedLayer(p, 1)
    /\ FetchedLayer(p, 2)
    /\ loc[p].file = LayerBlob(p, 2)

(* ------------------------------------------------------------------ *)
(* C20                                                                *)
(* ------------------------------------------------------------------ *)

\* The model layers the invocation of p has linked so far.
Linked(p) == { i \in ModelIdx(p) : LinkedLayer(p, i) }

\* The greatest element of a non-empty set of numbers.
Greatest(S) == CHOOSE i \in S : \A j \in S : j <= i

\* C20: Several model layers.  While init_pull works through a manifest
\* of two or more model layers, the layers linked so far are the first
\* ones of the manifest, each by an ln -sf on the one published symlink,
\* which (when it is there) names the blob of the last layer linked; when init_pull has
\* returned, every model layer has its blob in the store and was linked,
\* and the symlink names the blob of the manifest's last model layer.
C20_SeveralModelLayers ==
  \A p \in AllProcs :
    Cardinality(ModelIdx(p)) >= 2
    => /\ \A i \in Linked(p) : \A j \in ModelIdx(p) : j < i => j \in Linked(p)
       /\ \A r \in obs[p].ran :
            r.cmd = "ln" => r.file = loc[p].symlink_path
       /\ (Linked(p) # {} /\ AbsPath(loc[p].symlink_path) \in DOMAIN symlinks)
          => Published(AbsPath(loc[p].symlink_path))
               = AbsPath(LayerBlob(p, Greatest(Linked(p))))
       /\ (pc[p] = "done" /\ ret[p].kind = "path")
          => /\ Linked(p) = ModelIdx(p)
             /\ \A i \in ModelIdx(p) : verify_checksum(LayerBlob(p, i))
             /\ ret[p].path = loc[p].symlink_path
             /\ Published(AbsPath(ret[p].path))
                  = AbsPath(LayerBlob(p, Greatest(ModelIdx(p))))

\* The pull of a manifest with two model layers returned after linking
\* both, the second over the first.
C20_Witness ==
  \E p \in AllProcs :
    /\ pc[p] = "done"
    /\ ret[p].kind = "path"
    /\ ModelIdx(p) = {1, 2}
    /\ FetchedLayer(p, 1) /\ FetchedLayer(p, 2)
    /\ Linked(p) = {1, 2}
    /\ LayerBlob(p, 1) # LayerBlob(p, 2)

(* ------------------------------------------------------------------ *)
(* C14                                                                *)
(* ------------------------------------------------------------------ *)

\* The symlink target pull_ollama_blob computes for p at its ln command.
FreshTarget(p) == RelPath(loc[p].file, DirName(loc[p].symlink_path))

\* C14: Publish is compare-then-replace.  In every step: a symlink that
\* is published stays published, naming a file that exists; a process at
\* its ln command whose symlink is there with the target just computed
\* changes no symlink and runs no command; and a process that leaves its
\* publish step without an exit leaves the symlink naming the target
\* just computed.
C14_CompareThenReplace ==
  [][ /\ \A link \in DOMAIN symlinks :
           /\ link \in DOMAIN symlinks'
           /\ LExists(dirs', LinkDest(link, symlinks'[link]))
      /\ \A p \in AllProcs :
           LET link == AbsPath(loc[p].symlink_path) IN
           /\ (pc[p] = "ln" /\ link \in DOMAIN symlinks
               /\ symlinks[link] = FreshTarget(p))
              => (symlinks' = symlinks /\ obs'[p].ran = obs[p].ran)
           /\ (pc[p] = "ln" /\ pc'[p] = "layers")
              => (link \in DOMAIN symlinks'
                  /\ symlinks'[link] = FreshTarget(p))
    ]_vars

(* ------------------------------------------------------------------ *)
(* C16                                                                *)
(* ------------------------------------------------------------------ *)

\* The file exists and its SHA-256 is the digest its name carries.
Intact(file) ==
  /\ AbsPath(file) \in DOMAIN blobs
  /\ BaseName(file) = <<"sha256", ":", Sha256Hex(blobs[AbsPath(file)])>>

\* This step is p's call of run_curl_cmd for `file`: from
\* pull_ollama_config_blob, or from pull_ollama_blob for the model layer
\* init_pull's loop is at.
CallsRunCurlCmd(p, file) ==
  \/ /\ pc[p] = "config" /\ pc'[p] # "config"
     /\ file = BlobPath(loc[p].manifest_data.config.digest)
  \/ /\ pc[p] = "layers" /\ pc'[p] \in {"curl", "ln"}
     /\ file = BlobPath(loc[p].manifest_data.layers[loc[p].idx].digest)

\* C16: Checksum-gated skip.  Every call of run_curl_cmd starts the
\* fetch command exactly when the destination file is absent or does
\* not hash to the digest in its name; when the file is there and
\* matches, no command is run and no file changes.
C16_ChecksumGatedSkip ==
  [][ \A p \in AllProcs : \A c \in RegistryContents :
        LET file == BlobPath(DigestOf(c)) IN
        CallsRunCurlCmd(p, file)
        => /\ pc'[p] = "curl" <=> ~Intact(file)
           /\ (\E r \in obs'[p].ran \ obs[p].ran :
                 r.cmd = "curl" /\ r.file = file) <=> ~Intact(file)
           /\ Intact(file) => (blobs' = blobs /\ obs'[p].ran = obs[p].ran)
    ]_vars

\* A pull is at its ln command for a model layer it ran no curl for, the
\* blob being in the store and intact.
C16_Witness ==
  \E p \in AllProcs :
    /\ pc[p] = "ln"
    /\ ~RanCurlFor(p, loc[p].digest)
    /\ Intact(loc[p].file)
    /\ \E r \in obs[p].ran : r.cmd = "curl" /\ r.file # loc[p].manifests

(* ------------------------------------------------------------------ *)
(* C19                                                                *)
(* ------------------------------------------------------------------ *)

\* The segments of the organization path the base class returned to p.
Segments(p) == SplitAll(loc[p].base.organization, "/")

\* The identifiers re-derived from the trailing segments: the tag is the
\* last segment, the organization the path without its last two.
Rederived(p) ==
  /\ loc[p].ids.tag = Segments(p)[Len(Segments(p))]
  /\ loc[p].ids.organization
       = JoinAll(SubSeq(Segments(p), 1, Len(Segments(p)) - 2), "/")

\* C19 as claimed: URL identifier re-derivation.  After
\* URL.extract_model_identifiers, for an organization path of more than
\* two segments whose second-to-last is "blob" or "resolve" the
\* identifiers are the re-derived ones; for every other path they are
\* the base class's; the name is the base class's.
C19_Claimed ==
  \A p \in AllProcs :
    pc[p] = "done"
    => /\ loc[p].ids.name = loc[p].base.name
       /\ IF /\ Len(Segments(p)) > 2
             /\ Segments(p)[Len(Segments(p)) - 1] \in {<<"blob">>, <<"resolve">>}
          THEN Rederived(p)
          ELSE loc[p].ids = loc[p].base

\* C19 (amended): URL identifier re-derivation.  After
\* URL.extract_model_identifiers, for an organization path of more than
\* two segments whose second-to-last is "blob", or is "resolve" while
\* the registry URL of Hugging Face ends with the path's first segment,
\* the identifiers are the re-derived ones; for every other path they
\* are the base class's; the name is the base class's.
C19_IdentifierRederivation ==
  \A p \in AllProcs :
    pc[p] = "done"
    => /\ loc[p].ids.name = loc[p].base.name
       /\ IF /\ Len(Segments(p)) > 2
             /\ \/ Segments(p)[Len(Segments(p)) - 1] = <<"blob">>
                \/ /\ Segments(p)[Len(Segments(p)) - 1] = <<"resolve">>
                   /\ EndsWith(<<"https", ":", "/", "/", "huggingface", ".", "co">>,
                               Segments(p)[1])
          THEN Rederived(p)
          ELSE loc[p].ids = loc[p].base

\* The identifiers of huggingface.co/org/resolve/main have been
\* re-derived.
C19_Witness ==
  \E p \in AllProcs :
    /\ pc[p] = "done"
    /\ loc[p].base.organization
         = <<"huggingface", ".", "co", "/", "org", "/", "resolve", "/", "main">>
    /\ loc[p].ids.tag = <<"main">>
    /\ loc[p].ids.organization = <<"huggingface", ".", "co", "/", "org">>

\* The models/ tree of the store.
ModelsTree == AbsPath(PathJoin(RamalamaStore, <<"models">>)) \o <<"/">>

\* C15: every symlink under the models/ tree has a relative target, never
\* an absolute path.
C15_RelocatableStore ==
  \A l \in DOMAIN symlinks :
    StartsWith(l, ModelsTree) => ~StartsWith(symlinks[l], <<"/">>)

\* The calls process p has made on the model store in its pull, and the
\* places in them of the calls of one function.
StoreCalls(p) == obs[p].calls

CallsOf(p, fn) == { i \in 1..Len(StoreCalls(p)) : StoreCalls(p)[i].fn = fn }

\* The pull of p has returned a path.
ReturnedPath(p) == pc[p] = "done" /\ ret[p].kind = "path"

\* The path p's pull looked up last is the one it returned, and it is the
\* snapshot file of hash h.
LookedUpUnder(p, h) ==
  LET c == StoreCalls(p) IN
  /\ c[Len(c)].fn = "get_snapshot_file_path"
  /\ c[Len(c)].hash = h
  /\ c[Len(c)].name = loc[p].ids.name
  /\ ret[p].path = get_snapshot_file_path(loc[p].type, loc[p].ids, h,
                                          loc[p].ids.name)

\* C17: in a pull through the model store, when get_cached_files reports
\* the snapshot complete new_snapshot is never called, nothing is
\* downloaded or copied, and the path returned is the snapshot file of the
\* cached hash; otherwise new_snapshot is called at most once, with one
\* required file, before any path is looked up, and the path returned is
\* looked up under the hash given to new_snapshot.
C17_CacheShortCircuit ==
  \A p \in procs :
    StoreCalls(p) # <<>> =>
      LET c == StoreCalls(p) IN
      /\ c[1].fn = "get_cached_files"
      /\ CallsOf(p, "get_cached_files") = {1}
      /\ c[1].all =>
           /\ CallsOf(p, "new_snapshot") = {}
           /\ hub = obs[p].hub /\ symlinks = obs[p].symlinks
           /\ ReturnedPath(p)
           /\ LookedUpUnder(p, c[1].hash)
      /\ ~c[1].all =>
           /\ CallsOf(p, "new_snapshot") \subseteq {2}
           /\ \A i \in CallsOf(p, "new_snapshot") : c[i].required = 1
           /\ CallsOf(p, "get_snapshot_file_path") \subseteq {3}
           /\ ReturnedPath(p) =>
                /\ CallsOf(p, "new_snapshot") = {2}
                /\ LookedUpUnder(p, c[2].hash)

\* A pull that found no complete snapshot has returned after its one
\* new_snapshot, and an earlier pull returned the snapshot file of a
\* cached hash that is not the hash of the name.
C17_Witness ==
  /\ ReturnedPath(1)
  /\ Len(StoreCalls(1)) = 3
  /\ ~StoreCalls(1)[1].all
  /\ \E arg \in DOMAIN pulled :
       LET ids == extract_model_identifiers(
                    base_model_identifiers(UrlModel(arg)))
       IN /\ StaleHash # generate_sha256(ids.name)
          /\ pulled[arg] = get_snapshot_file_path(UrlScheme(arg), ids,
                                                  StaleHash, ids.name)

\* Process p pulls a "file" reference whose source is not there.
MissingSource(p) ==
  /\ loc[p].type = "file"
  /\ AbsPath(loc[p].model) \notin HostFiles

\* The pull of p has raised FileNotFoundError, and the store has the
\* symlinks and the files it had when the pull began.
RaisedNothingCreated(p) ==
  /\ pc[p] = "done"
  /\ ret[p].kind = "raise"
  /\ ret[p].msg = <<"FileNotFoundError">>
  /\ symlinks = obs[p].symlinks
  /\ hub = obs[p].hub
  /\ blobs = obs[p].blobs

\* new_snapshot was called in p's pull and the file had no blob, so that
\* its download was called.
Downloaded(p) ==
  /\ CallsOf(p, "new_snapshot") # {}
  /\ AbsPath(get_blob_file_path(loc[p].type, loc[p].ids, loc[p].digest))
       \notin obs[p].hub

\* C18: for a "file" reference whose source does not exist, URL.pull
\* without a store and LocalModelFile.download with one end in
\* FileNotFoundError, and no symlink and no blob has been created in the
\* store when it is raised.
C18_SourceMissing ==
  \A p \in procs :
    MissingSource(p) =>
      /\ (StoreCalls(p) = <<>> /\ pc[p] # "idle") => RaisedNothingCreated(p)
      /\ Downloaded(p) => RaisedNothingCreated(p)

\* LocalModelFile.download has raised for a missing source, after an
\* earlier pull of a "file" reference whose source is there returned.
C18_Witness ==
  /\ MissingSource(1)
  /\ Downloaded(1)
  /\ pc[1] = "done"
  /\ \E arg \in DOMAIN pulled : UrlScheme(arg) = "file"

\* The layers of another mediaType of the manifest p has loaded.
OtherIdx(p) == (1..Len(loc[p].manifest_data.layers)) \ ModelIdx(p)

\* init_pull of p is at the loop header, on a layer of another mediaType.
AtOtherLayer(p) == pc[p] = "layers" /\ loc[p].idx \in OtherIdx(p)

\* C21: Non-model layers leave the store unchanged.  For a layer whose
\* mediaType is not the model-content type no fetch is run and no blob
\* file exists, and the pass of init_pull's loop over it runs no command
\* and changes no file and no symlink: it goes on to the next layer.
C21_NonModelLayersFrame ==
  /\ [](\A p \in AllProcs : \A i \in OtherIdx(p) :
          /\ ~FetchedLayer(p, i)
          /\ ~LinkedLayer(p, i)
          /\ AbsPath(LayerBlob(p, i)) \notin DOMAIN blobs)
  /\ [][ \A p \in AllProcs :
           AtOtherLayer(p)
           => /\ fsvars' = fsvars
              /\ obs'[p] = obs[p]
              /\ pc'[p] = "layers"
              /\ loc'[p] = [loc[p] EXCEPT !.idx = @ + 1]
       ]_vars

\* The pull of "tail" is past its license layer, which follows the model
\* layer: the symlink published for the model layer is the one there.
C21_Witness ==
  /\ pc[1] = "layers"
  /\ loc[1].arg = <<"tail">>
  /\ loc[1].idx = 3
  /\ OtherIdx(1) = {2}
  /\ AbsPath(loc[1].symlink_path) \in DOMAIN symlinks
  /\ Published(AbsPath(loc[1].symlink_path)) = AbsPath(LayerBlob(1, 1))

\* Two Ollama references differ in namespace, name or tag.
DistinctReferences(a, b) ==
  \/ pull_cli_names(a).model_name # pull_cli_names(b).model_name
  \/ pull_cli_names(a).model_tag # pull_cli_names(b).model_tag

\* C22: Distinct references get distinct published models.  The path a
\* pull of an Ollama reference returns is never the path an earlier pull
\* returned for a reference that differs from it in namespace, name or
\* tag.
C22_DistinctReferences ==
  \A p \in AllProcs :
    (pc[p] = "done" /\ ret[p].kind = "path")
    => \A arg \in DOMAIN pulled :
         DistinctReferences(arg, loc[p].arg) => pulled[arg] # ret[p].path

====
